---- MODULE Spec2Model ----
(***************************************************************************)
(* Model of the blur_hdri Blender add-on (src/blur_hdri/__init__.py):      *)
(* the operator NODE_OT_blur_env_image with its helpers process_exr and    *)
(* pad_and_blur.                                                           *)
(*                                                                         *)
(* Units.  A radius is an integer number of tenths (radius 1.5 is 15).     *)
(* An EXR float sample is an integer number of thousandths (3.0 is 3000).  *)
(* An 8-bit sample is an integer 0..255.  A plane is a sequence of rows,   *)
(* a row a sequence of samples; a raster maps band names to planes.        *)
(***************************************************************************)
EXTENDS Integers, Sequences, FiniteSets, TLC

VARIABLES
    \* the arguments and locals of the helpers
    call,      \* who runs: "execute", or the helper called directly
    radius,    \* self.radius / the radius argument, in tenths
    is_env,    \* the is_env argument (pad_and_blur always pads)
    img,       \* the decoded input raster: band name -> plane
    pad,       \* the local pad of the helper (0 before the call)
    padded,    \* the raster handed to the blur (img_uint8 / arr after hstack)
    ret,       \* the raster the helper returned (blurred_img / img)
    outcome,   \* of the helper: "pending", "returned", "raised"
    \* the context and locals of execute
    pc,            \* position in execute
    present,       \* whether space (1), material (2), world (3) offers a tree
    nodes,         \* the nodes of each offered tree
    nodes_before,  \* nodes when execute was called
    src,           \* the file at the image path: kind, header, data
    img_path,
    ext,
    blurred_path,
    written,       \* files execute created: path, header, planes
    images,        \* paths loaded into bpy.data.images by execute
    result,        \* "running", "FINISHED", "CANCELLED"
    report         \* the message of self.report

bvars == <<call, radius, is_env, img, pad, padded, ret, outcome>>
evars == <<pc, present, nodes, nodes_before, src, img_path, ext, blurred_path,
           written, images, result, report>>
vars == <<bvars, evars>>

----------------------------------------------------------------------------
(* Bounds of the model and constants of the program *)

MaxWidth == 3
MaxHeight == 2
MaxPixels == 4

RadiusMin == 1
RadiusMax == 1000

\* radii (tenths) the operator accepts that the model draws: pad 0, pad 1,
\* pad 2 and 3 at most a width, pad above every width, and the maximum
RadiusSet == {1, 4, 5, 10, 15, 25, 1000}

\* a direct call of a helper can also be given 0 (negative radii are left
\* out: whether Pillow's filter takes them depends on its version)
CallRadiusSet == RadiusSet \cup {0}

ByteSamples == {0, 255}
FloatSamples == {-500, 500, 3000}

----------------------------------------------------------------------------
(* Python and numpy primitives *)

\* a sequence given by a rule, as an explicit tuple (each element is
\* computed once)
Tup(f) == f \o <<>>

Max(a, b) == IF a >= b THEN a ELSE b
Min(a, b) == IF a <= b THEN a ELSE b

\* int(n / d) for d > 0: truncation toward zero
IntTrunc(n, d) == IF n >= 0 THEN n \div d ELSE -((-n) \div d)

\* a slice bound resolved against a length n, with Python's rules
SliceIndex(i, n) == IF i < 0 THEN Max(n + i, 0) ELSE Min(i, n)

\* s[start:stop]
PySlice(s, start, stop) ==
    LET a == SliceIndex(start, Len(s))
        b == SliceIndex(stop, Len(s))
    IN  IF a < b THEN SubSeq(s, a + 1, b) ELSE <<>>

\* s[start:] and s[:stop]
PySliceFrom(s, start) ==
    LET a == SliceIndex(start, Len(s))
    IN  IF a < Len(s) THEN SubSeq(s, a + 1, Len(s)) ELSE <<>>

PySliceTo(s, stop) == SubSeq(s, 1, SliceIndex(stop, Len(s)))

\* arr[:, start:stop], arr[:, start:], arr[:, :stop]
ColSlice(plane, start, stop) ==
    Tup([r \in 1..Len(plane) |-> PySlice(plane[r], start, stop)])

ColSliceFrom(plane, start) ==
    Tup([r \in 1..Len(plane) |-> PySliceFrom(plane[r], start)])

ColSliceTo(plane, stop) ==
    Tup([r \in 1..Len(plane) |-> PySliceTo(plane[r], stop)])

\* np.hstack([left, mid, right])
HStack(left, mid, right) ==
    Tup([r \in 1..Len(mid) |-> left[r] \o mid[r] \o right[r]])

Height(plane) == Len(plane)
Width(plane) == IF Len(plane) = 0 THEN 0 ELSE Len(plane[1])

Transpose(plane) ==
    Tup([c \in 1..Width(plane) |->
            Tup([r \in 1..Height(plane) |-> plane[r][c]])])

----------------------------------------------------------------------------
(* Pillow's GaussianBlur: three passes of an extended box blur per axis,   *)
(* edge pixels extended (libImaging/BoxBlur.c).  The float arithmetic of   *)
(* the box radius is modelled by exact rationals.                          *)

\* l = floor((sqrt(12*sigma2 + 1) - 1) / 2) with sigma2 = radius^2 / 3
RECURSIVE BoxL(_, _)
BoxL(r, l) ==
    IF 25 * (2 * l + 3) * (2 * l + 3) <= r * r + 25 THEN BoxL(r, l + 1) ELSE l

\* the box radius l + a as the fraction num / den
BoxRadius(r) ==
    LET l == BoxL(r, 0)
        aN == (2 * l + 1) * (r * r - 100 * l * (l + 1))
        aD == 2 * (300 * (l + 1) * (l + 1) - r * r)
    IN  [num |-> l * aD + aN, den |-> aD]

\* floor(2^k * (q + rem / m)) by long division (TLC's integers are 32-bit)
RECURSIVE ShiftDiv(_, _, _, _)
ShiftDiv(q, rem, m, k) ==
    IF k = 0 THEN q
    ELSE ShiftDiv(2 * q + (IF 2 * rem >= m THEN 1 ELSE 0), (2 * rem) % m, m, k - 1)

\* ww = (UINT32)((1 << 24) / (floatRadius * 2 + 1))
BoxWW(fr) ==
    LET m == 2 * fr.num + fr.den
    IN  ShiftDiv(fr.den \div m, fr.den % m, m, 24)

\* fw = ((1 << 24) - (radius * 2 + 1) * ww) / 2
BoxFW(fr) == (16777216 - (2 * (fr.num \div fr.den) + 1) * BoxWW(fr)) \div 2

RECURSIVE SumRange(_, _, _)
SumRange(row, lo, hi) ==
    IF lo > hi THEN 0 ELSE row[lo] + SumRange(row, lo + 1, hi)

\* (acc * ww + far * fw + (1 << 23)) >> 24, in 12-bit limbs
Bulk24(acc, ww, far, fw) ==
    LET hi == acc * (ww \div 4096) + far * (fw \div 4096) + 2048
        lo == acc * (ww % 4096) + far * (fw % 4096)
    IN  (hi + lo \div 4096) \div 4096

\* one pass of ImagingLineBoxBlur8 over a row: the window of radius rad
\* around x with weight ww, the two pixels just outside it with weight fw,
\* indices clamped to the row (edge pixels extended)
LineBoxBlur(row, rad, ww, fw) ==
    LET n == Len(row)
        At(i) == row[Max(1, Min(n, i))]
        Acc(x) == Max(0, rad - x + 1) * row[1]
                  + SumRange(row, Max(1, x - rad), Min(n, x + rad))
                  + Max(0, x + rad - n) * row[n]
    IN  Tup([x \in 1..n |->
            Bulk24(Acc(x), ww, At(x - rad - 1) + At(x + rad + 1), fw)])

\* ImagingHorizontalBoxBlur
HorizontalBoxBlur(plane, fr) ==
    LET rad == fr.num \div fr.den
        ww == BoxWW(fr)
        fw == BoxFW(fr)
    IN  Tup([r \in 1..Len(plane) |-> LineBoxBlur(plane[r], rad, ww, fw)])

Passes3(plane, fr) ==
    HorizontalBoxBlur(HorizontalBoxBlur(HorizontalBoxBlur(plane, fr), fr), fr)

\* pil_img.filter(ImageFilter.GaussianBlur(radius=radius)) on one band
GaussianBlur(plane, r) ==
    LET fr == BoxRadius(r)
    IN  Transpose(Passes3(Transpose(Passes3(plane, fr)), fr))

----------------------------------------------------------------------------
(* The helpers of the operator, one band at a time: numpy slices along    *)
(* the column axis and Pillow filters every band on its own.              *)

\* a plausible slip: only the lower bound is applied
ClipLowOnly(x) == Max(0, x)

\* np.clip(x, 0, 1) on thousandths
Clip(x) == Max(0, Min(1000, x))

\* astype(np.uint8): truncation, then the low eight bits
AsUint8(num, den) == IntTrunc(num, den) % 256

\* (np.clip(img, 0, 1) * 255).astype(np.uint8), one sample
ToUint8(x) == AsUint8(Clip(x) * 255, 1000)

\* the conversion to 8 bits, over a plane
Uint8Plane(plane) ==
    Tup([r \in 1..Len(plane) |->
            Tup([c \in 1..Len(plane[r]) |-> ToUint8(plane[r][c])])])

\* blurred_np.astype(np.float32) / 255.0, one sample, as a fraction
ToFloat(v) == [num |-> v, den |-> 255]

\* the conversion back to float, over a plane
FloatPlane(plane) ==
    Tup([r \in 1..Len(plane) |->
            Tup([c \in 1..Len(plane[r]) |-> ToFloat(plane[r][c])])])

\* a plausible slip: twice the truncated radius
PadTwiceFloor(r) == 2 * IntTrunc(r, 10)

\* pad = int(radius * 2)
PadOf(r) == IntTrunc(2 * r, 10)

\* np.hstack([arr[:, -pad:], arr, arr[:, :pad]])
WrapPad(plane, p) ==
    HStack(ColSliceFrom(plane, -p), plane, ColSliceTo(plane, p))

\* blurred[:, pad:-pad]
Crop(plane, p) == ColSlice(plane, p, -p)

\* what process_exr hands to the blur, per band
ExrPadded(raster, r, env) ==
    [b \in DOMAIN raster |->
        LET u == Uint8Plane(raster[b])
        IN  IF env THEN WrapPad(u, PadOf(r)) ELSE u]

\* process_exr, from the decoded R, G, B planes to the returned array
ProcessExr(raster, r, env) ==
    [b \in DOMAIN raster |->
        LET blurred == GaussianBlur(ExrPadded(raster, r, env)[b], r)
            cropped == IF env THEN Crop(blurred, PadOf(r)) ELSE blurred
        IN  FloatPlane(cropped)]

\* what pad_and_blur hands to the blur, per band
PabPadded(raster, r) ==
    [b \in DOMAIN raster |-> WrapPad(raster[b], PadOf(r))]

\* pad_and_blur, from the image's array to the array of the returned image
PadAndBlur(raster, r) ==
    [b \in DOMAIN raster |-> Crop(GaussianBlur(PabPadded(raster, r)[b], r), PadOf(r))]

\* any band of a raster (all bands have the same extent)
AnyBand(raster) == CHOOSE b \in DOMAIN raster : TRUE
RWidth(raster) == Width(raster[AnyBand(raster)])
RHeight(raster) == Height(raster[AnyBand(raster)])

----------------------------------------------------------------------------
(* The helpers called directly *)

Dims == {d \in (1..MaxHeight) \X (1..MaxWidth) : d[1] * d[2] <= MaxPixels}

Planes(samples) ==
    UNION {[1..d[1] -> [1..d[2] -> samples]] : d \in Dims}

MirrorCols(plane) ==
    [r \in 1..Len(plane) |->
        [c \in 1..Len(plane[r]) |-> plane[r][Len(plane[r]) + 1 - c]]]

\* a three-band raster built from one plane
Rgb(p) == [b \in {"R", "G", "B"} |-> IF b = "G" THEN MirrorCols(p) ELSE p]

BlurInit ==
    /\ call \in {"process_exr", "pad_and_blur"}
    /\ radius \in CallRadiusSet
    /\ IF call = "process_exr"
       THEN /\ is_env \in BOOLEAN
            /\ img \in {Rgb(p) : p \in Planes(FloatSamples)}
       ELSE /\ is_env = TRUE
            /\ img \in {[b \in {"L"} |-> p] : p \in Planes(ByteSamples)}
                       \cup {Rgb(p) : p \in Planes(ByteSamples)}
    /\ pad = 0
    /\ padded = <<>>
    /\ ret = <<>>
    /\ outcome = "pending"
    /\ pc = "helper"
    /\ present = <<>>
    /\ nodes = <<>>
    /\ nodes_before = <<>>
    /\ src = <<>>
    /\ img_path = <<>>
    /\ ext = <<>>
    /\ blurred_path = <<>>
    /\ written = {}
    /\ images = {}
    /\ result = "running"
    /\ report = ""

\* the outcomes of a step that raises only under cond, and then only in
\* some versions of the library
MayRaise(cond) == IF cond THEN BOOLEAN ELSE {FALSE}

\* process_exr(path, radius, is_env) on a readable file
CallProcessExr ==
    /\ call = "process_exr"
    /\ outcome = "pending"
    /\ pad' = IF is_env THEN PadOf(radius) ELSE 0
    /\ padded' = ExrPadded(img, radius, is_env)
    /\ ret' = ProcessExr(img, radius, is_env)
    /\ outcome' = "returned"
    /\ UNCHANGED <<call, radius, is_env, img>>
    /\ UNCHANGED evars

\* pad_and_blur(img, radius); Image.fromarray of an array without columns
\* either raises or gives an empty image, depending on the Pillow version
CallPadAndBlur ==
    /\ call = "pad_and_blur"
    /\ outcome = "pending"
    /\ pad' = PadOf(radius)
    /\ padded' = PabPadded(img, radius)
    /\ \E raised \in MayRaise(RWidth(PadAndBlur(img, radius)) = 0) :
          IF raised
          THEN ret' = <<>> /\ outcome' = "raised"
          ELSE ret' = PadAndBlur(img, radius) /\ outcome' = "returned"
    /\ UNCHANGED <<call, radius, is_env, img>>
    /\ UNCHANGED evars

BlurNext == CallProcessExr \/ CallPadAndBlur

SpecBlur == BlurInit /\ [][BlurNext]_vars

----------------------------------------------------------------------------
(* Paths: strings are sequences of one-character strings *)

\* p.rfind(ch), 0 when absent
RFind(p, ch) ==
    LET hits == {i \in 1..Len(p) : p[i] = ch}
    IN  IF hits = {} THEN 0 ELSE CHOOSE i \in hits : \A j \in hits : j <= i

\* os.path.splitext: the extension starts at the last dot of the last
\* component, unless only dots precede it there
Splitext(p) ==
    LET sepIndex == RFind(p, "/")
        dotIndex == RFind(p, ".")
    IN  IF /\ dotIndex > sepIndex
           /\ \E j \in (sepIndex + 1)..(dotIndex - 1) : p[j] # "."
        THEN [base |-> SubSeq(p, 1, dotIndex - 1),
              ext |-> SubSeq(p, dotIndex, Len(p))]
        ELSE [base |-> p, ext |-> <<>>]

\* str.lower on the letters the model's paths use
LowerChar(c) ==
    CASE c = "E" -> "e" [] c = "X" -> "x" [] c = "R" -> "r" [] OTHER -> c

Lower(p) == [i \in 1..Len(p) |-> LowerChar(p[i])]

BlendDir == <<"/", "b", "/">>

\* bpy.path.abspath: a leading "//" stands for the blend file's directory
Abspath(p) ==
    IF Len(p) >= 2 /\ p[1] = "/" /\ p[2] = "/"
    THEN BlendDir \o SubSeq(p, 3, Len(p))
    ELSE p

\* a plausible slip: the suffix is left out
BlurredPathInPlace(base, e) == base \o e

\* blurred_path = base + "_blurred" + ext
BlurredPath(base, e) ==
    base \o <<"_", "b", "l", "u", "r", "r", "e", "d">> \o e

ExrExt == <<".", "e", "x", "r">>

\* the extensions Image.save finds a format for, among the model's paths
SaveExts == {<<".", "p", "n", "g">>}

----------------------------------------------------------------------------
(* The operator's execute *)

MaxNodes == 2

ImageKinds == {"ShaderNodeTexImage", "ShaderNodeTexEnvironment",
               "CompositorNodeImage"}

\* hasattr(node, "image")
HasImageAttr(n) == n.bl_idname \in ImageKinds

Paths ==
    { <<"a", ".", "e", "x", "r">>,
      <<"a", ".", "E", "X", "R">>,
      <<"a", ".", "p", "n", "g">>,
      <<"/", "/", "a", ".", "p", "n", "g">>,
      <<"a", ".", "b", ".", "p", "n", "g">>,
      <<"a">>,
      <<".", "e", "x", "r">>,
      <<"d", ".", "x", "/", "a">> }

NodeOf(kind, sel, path) ==
    [bl_idname |-> kind, select |-> sel, image |-> path, location |-> 0]

\* the nodes a tree can hold at the call, their images at path p
NodeChoices(p) ==
    { NodeOf("ShaderNodeTexImage", TRUE, p),
      NodeOf("ShaderNodeTexImage", FALSE, p),
      NodeOf("ShaderNodeTexImage", TRUE, <<>>),
      NodeOf("ShaderNodeTexEnvironment", TRUE, p),
      NodeOf("CompositorNodeImage", TRUE, p),
      NodeOf("ShaderNodeBsdfPrincipled", TRUE, <<>>) }

NodeLists(p) == UNION {[1..n -> NodeChoices(p)] : n \in 0..MaxNodes}

ExrPlane == <<<<-500, 500, 3000>>>>
ImgPlane == <<<<0, 255, 0>>>>

ExrFile(header) ==
    [kind |-> "exr", header |-> header,
     data |-> [c \in {header[i] : i \in 1..Len(header)} |-> ExrPlane]]

\* what the file at the image path can hold: an EXR file with the header's
\* channels (sorted by name, as OpenEXR keeps them) or an 8-bit image
SrcFiles ==
    { ExrFile(<<"B", "G", "R">>),
      ExrFile(<<"A", "B", "G", "R">>),
      ExrFile(<<"B", "G">>),
      [kind |-> "img", header |-> <<>>, data |-> [b \in {"L"} |-> ImgPlane]] }

ExecRadiusSet == {1, 10}

Init ==
    /\ call = "execute"
    /\ radius \in ExecRadiusSet
    /\ is_env = FALSE
    /\ img = <<>>
    /\ pad = 0
    /\ padded = <<>>
    /\ ret = <<>>
    /\ outcome = "pending"
    /\ pc = "start"
    /\ present \in [1..3 -> BOOLEAN]
    /\ \E p \in Paths : \E ns \in NodeLists(p) :
          nodes = [t \in 1..3 |-> IF present[t] THEN ns ELSE <<>>]
    /\ nodes_before = nodes
    /\ src \in SrcFiles
    /\ img_path = <<>>
    /\ ext = <<>>
    /\ blurred_path = <<>>
    /\ written = {}
    /\ images = {}
    /\ result = "running"
    /\ report = ""

\* lines 27-34: the first tree offered by space, material, world (0: none)
NodeTree ==
    IF \E t \in 1..3 : present[t]
    THEN CHOOSE t \in 1..3 : present[t] /\ \A u \in 1..(t - 1) : ~present[u]
    ELSE 0

\* line 41, 46: selected_nodes[0] as an index into nodes (0: none selected)
FirstSelected(ns) ==
    IF \E i \in 1..Len(ns) : ns[i].select
    THEN CHOOSE i \in 1..Len(ns) :
            ns[i].select /\ \A j \in 1..(i - 1) : ~ns[j].select
    ELSE 0

\* the selected node, once the checks of lines 36-49 have passed
Node == nodes_before[NodeTree][FirstSelected(nodes_before[NodeTree])]

Cancel(msg) ==
    /\ result' = "CANCELLED"
    /\ report' = msg
    /\ pc' = "done"

\* lines 27-53: the checks on the selection and the two paths
Validate ==
    /\ pc = "start"
    /\ IF NodeTree = 0
       THEN /\ Cancel("No node tree found (material or world).")
            /\ UNCHANGED <<img_path, ext, blurred_path>>
       ELSE IF FirstSelected(nodes[NodeTree]) = 0
       THEN /\ Cancel("No node selected.")
            /\ UNCHANGED <<img_path, ext, blurred_path>>
       ELSE IF ~(HasImageAttr(Node) /\ Node.image # <<>>)
       THEN /\ Cancel("Selected node is not an image node or has no image.")
            /\ UNCHANGED <<img_path, ext, blurred_path>>
       ELSE /\ img_path' = Abspath(Node.image)
            /\ ext' = Splitext(Abspath(Node.image)).ext
            /\ blurred_path' = BlurredPath(Splitext(Abspath(Node.image)).base,
                                           Splitext(Abspath(Node.image)).ext)
            /\ pc' = "blur"
            /\ UNCHANGED <<result, report>>
    /\ UNCHANGED <<present, nodes, nodes_before, src, written, images>>
    /\ UNCHANGED bvars

IsExr == Lower(ext) = ExrExt

EnvNode == Node.bl_idname = "ShaderNodeTexEnvironment"

\* the except clause of lines 96-98
Except ==
    /\ Cancel("Error")
    /\ UNCHANGED <<present, nodes, nodes_before, src, img_path, ext,
                   blurred_path, written, images>>

\* lines 58 and 74-78: read the file and blur it.  Reading can fail for
\* reasons outside the model (io), and fails when the file is not of the
\* kind the extension promises or lacks one of the channels R, G, B.
ReadAndBlur ==
    /\ pc = "blur"
    /\ \E io \in BOOLEAN :
       IF IsExr
       THEN IF io /\ src.kind = "exr" /\ {"R", "G", "B"} \subseteq DOMAIN src.data
            THEN /\ img' = [c \in {"R", "G", "B"} |-> src.data[c]]
                 /\ is_env' = EnvNode
                 /\ ret' = ProcessExr([c \in {"R", "G", "B"} |-> src.data[c]],
                                      radius, EnvNode)
                 /\ pc' = "write"
                 /\ UNCHANGED <<present, nodes, nodes_before, src, img_path,
                                ext, blurred_path, written, images, result,
                                report>>
            ELSE Except /\ UNCHANGED <<img, is_env, ret>>
       ELSE IF io /\ src.kind = "img"
            THEN /\ img' = src.data
                 /\ is_env' = EnvNode
                 /\ \E raised \in MayRaise(EnvNode
                          /\ RWidth(PadAndBlur(src.data, radius)) = 0) :
                       IF raised
                       THEN Except /\ ret' = <<>>
                       ELSE /\ ret' = IF EnvNode
                                      THEN PadAndBlur(src.data, radius)
                                      ELSE [b \in DOMAIN src.data |->
                                               GaussianBlur(src.data[b], radius)]
                            /\ pc' = "write"
                            /\ UNCHANGED <<present, nodes, nodes_before, src,
                                           img_path, ext, blurred_path, written,
                                           images, result, report>>
            ELSE Except /\ UNCHANGED <<img, is_env, ret>>
    /\ UNCHANGED <<call, radius, pad, padded, outcome>>

\* the channels of the header for which execute hands over pixel data
SuppliedPlanes(header) ==
    SelectSeq(header, LAMBDA c : c \in {"R", "G", "B"})

\* lines 61-68 and 79: write the blurred file.  OutputFile creates the
\* file before writePixels checks the size of the data; Image.save
\* refuses a name without a known extension and an image without pixels.
WriteFile ==
    /\ pc = "write"
    /\ \E io \in BOOLEAN :
       IF IsExr
       THEN IF io /\ RWidth(ret) = RWidth(img) /\ RHeight(ret) = RHeight(img)
            THEN /\ written' = written \cup
                      {[path |-> blurred_path, header |-> src.header,
                        planes |-> SuppliedPlanes(src.header)]}
                 /\ pc' = "load"
                 /\ UNCHANGED <<result, report>>
            ELSE /\ written' = IF io
                               THEN written \cup
                                      {[path |-> blurred_path,
                                        header |-> src.header, planes |-> <<>>]}
                               ELSE written
                 /\ Cancel("Error")
       ELSE IF io /\ Lower(ext) \in SaveExts /\ RWidth(ret) > 0
            THEN /\ written' = written \cup
                      {[path |-> blurred_path, header |-> <<>>,
                        planes |-> <<"L">>]}
                 /\ pc' = "load"
                 /\ UNCHANGED <<result, report>>
            ELSE /\ written' = written
                 /\ Cancel("Error")
    /\ UNCHANGED <<present, nodes, nodes_before, src, img_path, ext,
                   blurred_path, images>>
    /\ UNCHANGED bvars

\* lines 70 and 80: bpy.data.images.load(blurred_path)
LoadImage ==
    /\ pc = "load"
    /\ \E ok \in BOOLEAN :
       IF ok
       THEN /\ images' = images \cup {blurred_path}
            /\ pc' = "new_node"
            /\ UNCHANGED <<present, nodes, nodes_before, src, img_path, ext,
                           blurred_path, written, result, report>>
       ELSE Except
    /\ UNCHANGED bvars

\* lines 83-89: nodes.new for the two supported types
NewNode ==
    /\ pc = "new_node"
    /\ IF Node.bl_idname \in {"ShaderNodeTexImage", "ShaderNodeTexEnvironment"}
       THEN \E ok \in BOOLEAN :
            IF ok
            THEN /\ nodes' = [nodes EXCEPT ![NodeTree] =
                        Append(@, [bl_idname |-> Node.bl_idname,
                                   select |-> TRUE, image |-> <<>>,
                                   location |-> 0])]
                 /\ pc' = "set_props"
                 /\ UNCHANGED <<result, report>>
            ELSE /\ Cancel("Error")
                 /\ UNCHANGED nodes
       ELSE /\ Cancel("Unsupported node type.")
            /\ UNCHANGED nodes
    /\ UNCHANGED <<present, nodes_before, src, img_path, ext, blurred_path,
                   written, images>>
    /\ UNCHANGED bvars

\* lines 91-100: place the new node and give it the image; an exception
\* here is caught like any other, with the new node already in the tree
SetProps ==
    /\ pc = "set_props"
    /\ \E ok \in BOOLEAN :
       IF ok
       THEN /\ nodes' = [nodes EXCEPT ![NodeTree][Len(nodes[NodeTree])] =
                  [@ EXCEPT !.location = Node.location - 300,
                            !.image = blurred_path]]
            /\ result' = "FINISHED"
            /\ report' = ""
            /\ pc' = "done"
       ELSE /\ Cancel("Error")
            /\ UNCHANGED nodes
    /\ UNCHANGED <<present, nodes_before, src, img_path, ext, blurred_path,
                   written, images>>
    /\ UNCHANGED bvars

Next == Validate \/ ReadAndBlur \/ WriteFile \/ LoadImage \/ NewNode \/ SetProps

Spec == Init /\ [][Next]_vars

----------------------------------------------------------------------------
(* Properties of the helpers, under SpecBlur *)

Accepted == radius \in RadiusMin..RadiusMax

Called == outcome # "pending"

\* the 8-bit raster the padding is applied to
Working ==
    IF call = "process_exr"
    THEN [b \in DOMAIN img |-> Uint8Plane(img[b])]
    ELSE img

\* C1: on the wrap-around path, for every accepted radius, the returned
\* raster has exactly the width and height of the input.
C1_SameExtent ==
    (outcome = "returned" /\ is_env /\ Accepted)
        => /\ RWidth(ret) = RWidth(img)
           /\ RHeight(ret) = RHeight(img)

C5_NonPositiveRejected ==
    (Called /\ radius <= 0) => (outcome = "raised" /\ ret = <<>>)

RotateCols(plane, k) ==
    [r \in 1..Len(plane) |->
        [c \in 1..Len(plane[r]) |->
            plane[r][((c - 1 + k) % Len(plane[r])) + 1]]]

RotateRaster(raster, k) == [b \in DOMAIN raster |-> RotateCols(raster[b], k)]

\* C6: with wrap-around, for every 8-bit raster, accepted radius and
\* offset k, rotating the input by k columns, running pad-blur-crop and
\* rotating back gives the raster the pipeline gives directly.
C6_RotationInvariant ==
    (call = "pad_and_blur" /\ outcome = "returned" /\ Accepted)
        => \A k \in 0..(RWidth(img) - 1) :
              RotateRaster(PadAndBlur(RotateRaster(img, k), radius),
                           RWidth(img) - k) = ret

Unit01(x) == IF x > 1000 THEN 1000 ELSE IF x < 0 THEN 0 ELSE x

Unit01Plane(plane) ==
    [r \in 1..Len(plane) |-> [c \in 1..Len(plane[r]) |-> Unit01(plane[r][c])]]

\* C8: in the EXR path a sample above 1.0 contributes as 1.0 and a
\* negative sample as 0 (the result is that of the raster clamped to
\* [0, 1]), and every returned sample is an 8-bit value over 255.
C8_ClampedToUnit ==
    (call = "process_exr" /\ outcome = "returned")
        => /\ ret = ProcessExr([b \in DOMAIN img |-> Unit01Plane(img[b])],
                               radius, is_env)
           /\ \A b \in DOMAIN ret : \A r \in 1..Len(ret[b]) :
                 \A c \in 1..Len(ret[b][r]) :
                    /\ ret[b][r][c].den = 255
                    /\ ret[b][r][c].num \in 0..255

C8_Witness ==
    /\ call = "process_exr" /\ outcome = "returned"
    /\ RWidth(img) = 2 /\ RWidth(ret) = 2
    /\ img["R"][1][1] = 3000 /\ img["R"][1][2] = -500
    /\ ret["R"][1][1].num > ret["R"][1][2].num

\* C9: for every accepted radius the padded raster has w + 2 * pad
\* columns and its column i holds the original column (i - pad) mod w.
C9_PaddedIsCyclic ==
    (Called /\ is_env /\ Accepted)
        => \A b \in DOMAIN padded : \A r \in 1..Len(padded[b]) :
              /\ Len(padded[b][r]) = RWidth(img) + 2 * pad
              /\ \A i \in 1..Len(padded[b][r]) :
                    padded[b][r][i]
                        = Working[b][r][((i - 1 - pad) % RWidth(img)) + 1]

----------------------------------------------------------------------------
(* Properties of execute, under Spec *)

\* C2: a node is added only after the file has been read, blurred, written
\* and loaded, and whenever execute returns CANCELLED (a failed check, an
\* unsupported node type, an exception at any step of the try block) the
\* node trees hold exactly the nodes they held at the call.
C2_GraphUnchangedOnCancel ==
    /\ (nodes # nodes_before)
          => /\ pc \in {"set_props", "done"}
             /\ blurred_path \in images
             /\ \E f \in written : f.path = blurred_path /\ f.planes # <<>>
    /\ (result = "CANCELLED") => (nodes = nodes_before)

\* C3: for an EXR source, the channel planes execute writes are, in set
\* and order, the channels of the source header reused as output header.
C3_ChannelsPreserved ==
    (result = "FINISHED" /\ IsExr)
        => \A f \in written : f.planes = f.header

ExtLike(t) ==
    \/ t = <<>>
    \/ /\ t[1] = "."
       /\ \A j \in 2..Len(t) : t[j] \notin {".", "/"}

\* C7: once the paths are computed, the output path is the source path
\* with "_blurred" inserted before its extension, it differs from the
\* source path, and no file execute writes is the source file.
C7_OutputBesideSource ==
    (blurred_path # <<>>)
        => /\ \E i \in 0..Len(img_path) :
                /\ SubSeq(img_path, i + 1, Len(img_path)) = ext
                /\ ExtLike(ext)
                /\ blurred_path =
                      SubSeq(img_path, 1, i)
                          \o <<"_", "b", "l", "u", "r", "r", "e", "d">> \o ext
           /\ blurred_path # img_path
           /\ \A f \in written : f.path # img_path

C7_Witness ==
    /\ result = "FINISHED"
    /\ img_path = <<"/", "b", "/", "a", ".", "p", "n", "g">>
    /\ \E f \in written :
          f.path = <<"/", "b", "/", "a", "_", "b", "l", "u", "r", "r", "e",
                     "d", ".", "p", "n", "g">>

PreconditionMessages ==
    { "No node tree found (material or world).",
      "No node selected.",
      "Selected node is not an image node or has no image.",
      "Unsupported node type." }

\* C10: whenever execute returns CANCELLED because a check on the
\* selection fails (no tree, no selected node, no image path, unsupported
\* node type), it has written no file and loaded no image.
C10_ChecksBeforeEffects ==
    (result = "CANCELLED" /\ report \in PreconditionMessages)
        => (written = {} /\ images = {})

====
